---- MODULE Spec2Model ----
(***************************************************************************)
(* State-machine model of hyperpose/Model/openpose/train.py:               *)
(* single_train (one process, resumable from its checkpoint directory) and *)
(* parallel_train (one process per KungFu worker).                         *)
(*                                                                         *)
(* Learning rates are kept as the power p of lr_decay_factor they carry:   *)
(* the value p stands for lr_init * lr_decay_factor^p.  Multiplying a rate *)
(* by lr_decay_factor adds 1 to p; lr_init * lr_decay_factor**k is p = k.  *)
(* With 0 < lr_decay_factor < 1 a larger p is a smaller rate.              *)
(*                                                                         *)
(* Weights are opaque in the source; a weight blob is represented by the   *)
(* number of gradient updates it has received.  The pretrained-backbone    *)
(* load (lines 186-190, 385-389) only changes the initial weight values    *)
(* and is not represented.                                                 *)
(***************************************************************************)
EXTENDS Integers, Sequences, FiniteSets, TLC

\* ------------------------------------------------------------ bounds
\* Kill-and-relaunch cycles explored per job.
MaxRestarts == 2
\* Largest KungFu cluster size explored in parallel_train.
MaxWorkers == 2

\* ------------------------------------------------------------ program constants
\* max_to_keep of the CheckpointManager.
MaxToKeep == 3
\* Initial value of save_step (single_train) and of step (parallel_train).
InitStep == 1
\* Number of fields of one dataset element produced by _map_fn.
MapArity == 4
\* Number of names the parallel_train loop unpacks one dataset element into.
UnpackArity == 3

\* config.log.log_interval and config.train.vis_interval of the jobs.
log_interval == 2
vis_interval == 3

\* lr_decay_steps as written in the source, both trainers.
lr_decay_steps ==
    <<200000, 300000, 360000, 420000, 480000, 540000, 600000, 700000, 800000, 900000>>

NoFile == [absent |-> TRUE]

\* ------------------------------------------------------------ inputs
\* A checkpoint as ckpt_manager.save() writes it from the tracked objects.
\* k is the save counter of the tf.train.Checkpoint, stored with the other
\* objects; the file is named after it (ckpt-k).
Ckpt(k, s, l, o, od, bad) ==
    [count |-> k, save_step |-> s, save_lr |-> l, opt |-> o, opt_d |-> od,
     corrupt |-> bad]

\* A weights file: the step at whose save block it was written, and the blob.
Npz(at, w) == [absent |-> FALSE, at |-> at, w |-> w]

\* The steps of the newest checkpoints an uninterrupted run started on an
\* empty directory holds after its save block at step n: it has saved at
\* every multiple of save_interval i above the initial step and the
\* CheckpointManager has kept the newest MaxToKeep, oldest first.
KeptSteps(n, i) ==
    LET back == {k \in 0 .. (MaxToKeep - 1) : n - k * i > InitStep}
        c == Cardinality(back)
    IN  [k \in 1 .. c |-> n - (c - k) * i]

\* The number of saves that run has made when it has saved at step s.
SaveCount(s, i) == (s \div i) - (InitStep \div i)

\* The power carried by the rate of that run at its save at step s, the
\* rate at step n carrying power p: the in-loop decays between s and n undone.
PowerAt(s, n, p) ==
    p - Cardinality({j \in DOMAIN lr_decay_steps :
                        s < lr_decay_steps[j] /\ lr_decay_steps[j] <= n})

\* The checkpoint directory that run leaves after its save block at step n,
\* domain adaptation disabled: by step s it has made s - InitStep updates.
DirAt(n, p, i) ==
    [ckpts |-> [k \in DOMAIN KeptSteps(n, i) |->
                   Ckpt(SaveCount(KeptSteps(n, i)[k], i),
                        KeptSteps(n, i)[k], PowerAt(KeptSteps(n, i)[k], n, p),
                        KeptSteps(n, i)[k] - InitStep, 0, FALSE)],
     model |-> Npz(n, n - InitStep),
     dis |-> NoFile]

EmptyDir == [ckpts |-> <<>>, model |-> NoFile, dis |-> NoFile]

\* The same directory with its latest checkpoint made unreadable.
CorruptDir(n, p, i) ==
    [DirAt(n, p, i) EXCEPT !.ckpts = [@ EXCEPT ![Len(@)].corrupt = TRUE]]

Conf(t, b, d, i) ==
    [total_step |-> t, batch_size |-> b, datasize |-> d, save_interval |-> i]

Found(kind, n, p) == [kind |-> kind, n |-> n, p |-> p]

\* Configurations (config.train.*, dataset size), each with the directory the
\* job finds at its first launch.
SingleJobs ==
    {  <<Conf(100, 4, 20, 50), Found("empty", 0, 0)>>,
       <<Conf(12, 2, 6, 4), Found("empty", 0, 0)>>,
       <<Conf(12, 2, 6, 4), Found("corrupt", 4, 0)>>,
       <<Conf(12, 2, 6, 4), Found("corrupt", 8, 0)>>,
       <<Conf(8, 3, 3, 2), Found("empty", 0, 0)>>,
       <<Conf(4, 4, 2, 2), Found("empty", 0, 0)>>,
       <<Conf(9, 2, 5, 3), Found("empty", 0, 0)>>,
       <<Conf(200010, 4, 20, 2), Found("saved", 199998, 0)>>,
       <<Conf(360010, 4, 20, 2), Found("saved", 359998, 2)>> }

MkDir(f, i) ==
    CASE f.kind = "empty" -> EmptyDir
      [] f.kind = "saved" -> DirAt(f.n, f.p, i)
      [] f.kind = "corrupt" -> CorruptDir(f.n, f.p, i)

ParallelConfs == { Conf(100, 4, 3, 50), Conf(12, 2, 4, 4) }

\* ------------------------------------------------------------ state
VARIABLES
    mode,            \* "single" or "parallel": which trainer the job runs
    conf,            \* the configuration of the job
    domainadapt_flag,\* config.data.domainadapt_flag
    nworkers,        \* current_cluster_size()
    \* the checkpoint directory model_dir
    ckpts,           \* checkpoints kept by the CheckpointManager, oldest first
    model_npz,       \* newest_model.npz
    dis_npz,         \* newest_discriminator.npz
    \* the single_train process
    pc,              \* its position
    step, lr,        \* the loop's locals
    save_step, save_lr,  \* the tf.Variables tracked by the checkpoint
    save_counter,    \* ckpt.save_counter: saves made, restored with the checkpoint
    opt_iter, opt_d_iter,\* optimizer states: number of apply_gradients calls
    weights, dis_weights,\* train_model and adapt_dis weights
    epoch_idx, epoch_step,\* the two loop counters
    cursor,          \* elements train_dataset_iter has consumed from the sample stream
    batch,           \* the batch the last next(train_dataset_iter) returned
    \* the parallel_train processes, by rank
    wk,
    \* history of the job, not program state
    restarts,        \* kill-and-relaunch cycles so far
    start_step,      \* step held when the loop was entered in this process
    restored,        \* what the restore of this process loaded
    saves,           \* steps at which this process called ckpt_manager.save()
    ran,             \* <<step, lr>> of the last executed training step of the job
    killed_at,       \* <<step completed, step of the latest checkpoint>> at the last kill
    last_saved,      \* step of the job's most recent readable checkpoint (0: none)
    save_log,        \* every checkpoint written to model_dir, oldest first
    applied_lr,      \* the rate opt read from save_lr in the last executed update
    events           \* what the current loop iteration of the process has done, in order

vars == <<mode, conf, domainadapt_flag, nworkers, ckpts, model_npz, dis_npz,
          pc, step, lr, save_step, save_lr, save_counter, opt_iter, opt_d_iter, weights,
          dis_weights, epoch_idx, epoch_step, cursor, batch, wk, restarts, start_step,
          restored, saves, ran, killed_at, last_saved, save_log, applied_lr,
          events>>

dirVars == <<ckpts, model_npz, dis_npz>>
jobVars == <<mode, conf, domainadapt_flag, nworkers>>
memVars == <<step, lr, save_step, save_lr, save_counter, opt_iter, opt_d_iter, weights,
             dis_weights, epoch_idx, epoch_step, cursor, batch>>
histVars == <<restarts, start_step, restored, saves, ran, killed_at, last_saved,
              save_log, applied_lr>>

Ranks == 0 .. (nworkers - 1)
NoRun == <<0, 0>>
NothingRestored == [ckpt |-> FALSE, ckpt_step |-> 0, ckpt_lr |-> 0,
                    model |-> FALSE, model_at |-> 0, dis |-> FALSE, dis_at |-> 0]

\* ------------------------------------------------------------ single_train: pure parts
\* epoch_size = dataset.get_train_datasize() // batch_size
epoch_size == conf.datasize \div conf.batch_size

\* total_epoch = total_step // epoch_size
total_epoch == conf.total_step \div epoch_size

\* cur_epoch = step // epoch_size + 1
cur_epoch(s) == (s \div epoch_size) + 1

\* for lr_decay_step in lr_decay_steps: if step > lr_decay_step: lr = lr * lr_decay_factor
ResumeDecay(l, s) ==
    l + Cardinality({i \in DOMAIN lr_decay_steps : s > lr_decay_steps[i]})

\* lr_decay_steps.index(step) + 1, the list being indexed from 0 in the source
DecayIndex(s) ==
    CHOOSE i \in DOMAIN lr_decay_steps :
        /\ lr_decay_steps[i] = s
        /\ \A j \in DOMAIN lr_decay_steps : lr_decay_steps[j] = s => i <= j

\* if step in lr_decay_steps: lr = lr_init * lr_decay_factor ** (index + 1)
LoopDecay(l, s) ==
    IF \E i \in DOMAIN lr_decay_steps : lr_decay_steps[i] = s
    THEN DecayIndex(s)
    ELSE l

\* The k-th element (from 0) of shuffle().repeat() over n samples: the pass
\* over the dataset it belongs to and its position in that pass's order.
Elem(k, n) == [pass |-> k \div n, pos |-> k % n]

\* Variant: the stream ends with the first pass; the last batch is the remainder.
Batch_OnePass(c, b, n) ==
    [i \in 1 .. (IF c + b <= n THEN b ELSE IF c < n THEN n - c ELSE 0) |->
        Elem(c + i - 1, n)]

\* repeat() then batch(batch_size): the next b elements of the endless
\* stream, c elements having been consumed.  repeat() of a dataset without
\* elements yields nothing.
Batch(c, b, n) ==
    IF n = 0 THEN <<>> ELSE [i \in 1 .. b |-> Elem(c + i - 1, n)]

\* (step != 0) and (step % log_interval) == 0, and the same for vis_interval
LogDue(s) == s # 0 /\ s % log_interval = 0
VisDue(s) == s # 0 /\ s % vis_interval = 0

\* What one iteration does up to the save test, in the order of its
\* statements: step += 1, next(train_dataset_iter), the decay test,
\* optimize_step, the periodic log, the periodic visualization.
IterEvents(s) ==
    <<"step", "batch", "lr", "update">>
        \o (IF LogDue(s) THEN <<"log">> ELSE <<>>)
        \o (IF VisDue(s) THEN <<"vis">> ELSE <<>>)

\* Variant: the save test taken against twice the interval.
SaveDue_Sparse(s) == s # 0 /\ s % (2 * conf.save_interval) = 0

\* (step != 0) and (step % save_interval) == 0
SaveDue(s) == s # 0 /\ s % conf.save_interval = 0

\* CheckpointManager.save with max_to_keep: append, then drop the oldest.
KeepNewest(cs) ==
    IF Len(cs) > MaxToKeep THEN SubSeq(cs, Len(cs) - MaxToKeep + 1, Len(cs)) ELSE cs

\* ckpt_manager.save() on the directory cs: the file ckpt-<count> is
\* written; a file of that name already in the directory is replaced and
\* counts as the newest; then the oldest beyond max_to_keep are deleted.
WriteCkpt(cs, c) ==
    KeepNewest(Append(SelectSeq(cs, LAMBDA x : x.count # c.count), c))

\* ckpt_manager.latest_checkpoint, restored inside try/except: a checkpoint
\* that is absent or unreadable leaves the tracked objects as constructed.
Restorable == ckpts # <<>> /\ ~ckpts[Len(ckpts)].corrupt
Latest == ckpts[Len(ckpts)]

\* Position and counters after the body of one iteration: the inner range
\* advances, then the outer one; the loops end when epoch_idx reaches total_epoch.
NextIdx == IF epoch_step + 1 = epoch_size THEN epoch_idx + 1 ELSE epoch_idx
NextEpochStep == IF epoch_step + 1 = epoch_size THEN 0 ELSE epoch_step + 1
NextPc == IF NextIdx < total_epoch THEN "loop" ELSE "done"

EndIteration ==
    /\ epoch_idx' = NextIdx
    /\ epoch_step' = NextEpochStep
    /\ pc' = NextPc

\* ------------------------------------------------------------ initial states
FreshMemory ==
    /\ step = 0 /\ lr = 0 /\ save_step = 0 /\ save_lr = 0 /\ save_counter = 0
    /\ opt_iter = 0 /\ opt_d_iter = 0 /\ weights = 0 /\ dis_weights = 0
    /\ epoch_idx = 0 /\ epoch_step = 0
    /\ cursor = 0 /\ batch = <<>>

FreshWorker == [pc |-> "init", step |-> 0, step_is_var |-> TRUE, step_var |-> 0,
                lr |-> 0, lr_var |-> 0, save_counter |-> 0, broadcasts |-> 0,
                cursor |-> 0, batch |-> <<>>,
                total_step |-> 0, decay_steps |-> <<>>, order |-> <<>>]

InitSingle ==
    /\ mode = "single"
    /\ nworkers = 1
    /\ \E j \in SingleJobs :
          /\ conf = j[1]
          /\ \E da \in BOOLEAN :
                /\ da => j[2].kind = "empty"
                /\ domainadapt_flag = da
                /\ ckpts = MkDir(j[2], conf.save_interval).ckpts
                /\ model_npz = MkDir(j[2], conf.save_interval).model
                /\ dis_npz = MkDir(j[2], conf.save_interval).dis
    /\ pc = "init"
    /\ wk = <<>>

InitParallel ==
    /\ mode = "parallel"
    /\ nworkers \in 1 .. MaxWorkers
    /\ conf \in ParallelConfs
    /\ domainadapt_flag = FALSE
    /\ ckpts = <<>> /\ model_npz = NoFile /\ dis_npz = NoFile
    /\ pc = "off"
    /\ wk = [r \in Ranks |-> FreshWorker]

Init ==
    /\ InitSingle \/ InitParallel
    /\ FreshMemory
    /\ restarts = 0
    /\ start_step = 0
    /\ restored = NothingRestored
    /\ saves = <<>>
    /\ ran = NoRun
    /\ killed_at = NoRun
    /\ last_saved = IF Restorable THEN Latest.save_step ELSE 0
    /\ save_log = ckpts
    /\ applied_lr = 0
    /\ events = <<>>

\* ------------------------------------------------------------ single_train: actions
\* Lines 113-176: hyper-parameters, dataset pipeline, tracked variables,
\* optimizers.  total_step // epoch_size raises ZeroDivisionError when the
\* dataset holds fewer samples than one batch.
Construct ==
    /\ mode = "single" /\ pc = "init"
    /\ IF epoch_size = 0
       THEN /\ pc' = "aborted"
            /\ UNCHANGED <<save_step, save_lr>>
       ELSE /\ pc' = "restore"
            /\ save_step' = InitStep
            /\ save_lr' = 0
    /\ save_counter' = 0
    /\ cursor' = 0 /\ batch' = <<>>
    /\ UNCHANGED <<step, lr, opt_iter, opt_d_iter, weights, dis_weights,
                   epoch_idx, epoch_step>>
    /\ UNCHANGED <<jobVars, dirVars, wk, histVars, events>>

\* Lines 178-212 and 239-240: four independent loads, each inside its own
\* try/except, then step and lr are read from the tracked variables, the
\* resume-time decay is applied and the loop is entered at cur_epoch.
Restore ==
    /\ mode = "single" /\ pc = "restore"
    /\ save_step' = IF Restorable THEN Latest.save_step ELSE save_step
    /\ save_lr' = IF Restorable THEN Latest.save_lr ELSE save_lr
    /\ save_counter' = IF Restorable THEN Latest.count ELSE save_counter
    /\ opt_iter' = IF Restorable THEN Latest.opt ELSE opt_iter
    /\ opt_d_iter' = IF Restorable /\ domainadapt_flag THEN Latest.opt_d ELSE opt_d_iter
    /\ weights' = IF model_npz.absent THEN weights ELSE model_npz.w
    /\ dis_weights' = IF domainadapt_flag /\ ~dis_npz.absent THEN dis_npz.w ELSE dis_weights
    /\ step' = save_step'
    /\ lr' = ResumeDecay(save_lr', step')
    /\ epoch_idx' = cur_epoch(step')
    /\ epoch_step' = 0
    /\ pc' = IF cur_epoch(step') < total_epoch THEN "loop" ELSE "done"
    /\ start_step' = step'
    /\ restored' = [ckpt |-> Restorable,
                    ckpt_step |-> IF Restorable THEN Latest.save_step ELSE 0,
                    ckpt_lr |-> IF Restorable THEN Latest.save_lr ELSE 0,
                    model |-> ~model_npz.absent,
                    model_at |-> IF model_npz.absent THEN 0 ELSE model_npz.at,
                    dis |-> domainadapt_flag /\ ~dis_npz.absent,
                    dis_at |-> IF domainadapt_flag /\ ~dis_npz.absent THEN dis_npz.at ELSE 0]
    /\ UNCHANGED <<jobVars, dirVars, wk, cursor, batch, restarts, saves, ran, killed_at,
                   last_saved, save_log, applied_lr, events>>

\* Lines 214-236, optimize_step: tape.gradient and opt.apply_gradients on
\* the model weights; opt was built with learning_rate=save_lr (line 162)
\* and reads that variable at the call.  With domain adaptation the
\* function then asks the same non-persistent GradientTape for a second set
\* of gradients (line 234), which raises RuntimeError: the discriminator
\* update of line 235 (written with opt, not opt_d) is never reached.
OptimizeStep ==
    /\ opt_iter' = opt_iter + 1
    /\ weights' = weights + 1
    /\ UNCHANGED <<opt_d_iter, dis_weights>>

\* Lines 247-275: one iteration up to the save test: step += 1, next batch,
\* in-loop decay, optimize_step, log, visualize.  With domain adaptation
\* the exception of optimize_step ends the process after the model update.
TrainStep ==
    /\ mode = "single" /\ pc = "loop"
    /\ step' = step + 1
    /\ batch' = Batch(cursor, conf.batch_size, conf.datasize)
    /\ cursor' = cursor + Len(batch')
    /\ lr' = LoopDecay(lr, step')
    /\ OptimizeStep
    /\ ran' = <<step', lr'>>
    /\ applied_lr' = save_lr
    /\ IF domainadapt_flag
       THEN /\ pc' = "aborted"
            /\ events' = <<"step", "batch", "lr", "update">>
            /\ UNCHANGED <<epoch_idx, epoch_step>>
       ELSE /\ events' = IterEvents(step')
            /\ IF SaveDue(step')
               THEN /\ pc' = "save_ckpt"
                    /\ UNCHANGED <<epoch_idx, epoch_step>>
               ELSE EndIteration
    /\ UNCHANGED <<save_step, save_lr, save_counter>>
    /\ UNCHANGED <<jobVars, dirVars, wk, restarts, start_step, restored, saves,
                   killed_at, last_saved, save_log>>

\* Variant: ckpt_manager.save() ahead of the two assigns.
SaveCkpt_BeforeAssign ==
    /\ mode = "single" /\ pc = "save_ckpt"
    /\ save_step' = step
    /\ save_lr' = lr
    /\ save_counter' = save_counter + 1
    /\ ckpts' = WriteCkpt(ckpts,
                   Ckpt(save_counter', save_step, save_lr, opt_iter,
                        IF domainadapt_flag THEN opt_d_iter ELSE 0, FALSE))
    /\ saves' = Append(saves, step)
    /\ pc' = "save_model"
    /\ UNCHANGED <<step, lr, opt_iter, opt_d_iter, weights, dis_weights,
                   epoch_idx, epoch_step, cursor, batch>>
    /\ last_saved' = save_step
    /\ save_log' = Append(save_log,
                      Ckpt(save_counter', save_step, save_lr, opt_iter,
                           IF domainadapt_flag THEN opt_d_iter ELSE 0, FALSE))
    /\ UNCHANGED <<jobVars, model_npz, dis_npz, wk, restarts, start_step, restored, ran,
                   killed_at, applied_lr>>
    /\ events' = Append(events, "ckpt")

\* Lines 278-280: save_step.assign(step); save_lr.assign(lr); ckpt_manager.save(),
\* which advances the save counter and writes the file named after it.
SaveCkpt ==
    /\ mode = "single" /\ pc = "save_ckpt"
    /\ save_step' = step
    /\ save_lr' = lr
    /\ save_counter' = save_counter + 1
    /\ ckpts' = WriteCkpt(ckpts,
                   Ckpt(save_counter', step, lr, opt_iter,
                        IF domainadapt_flag THEN opt_d_iter ELSE 0, FALSE))
    /\ saves' = Append(saves, step)
    /\ pc' = "save_model"
    /\ UNCHANGED <<step, lr, opt_iter, opt_d_iter, weights, dis_weights,
                   epoch_idx, epoch_step, cursor, batch>>
    /\ last_saved' = step
    /\ save_log' = Append(save_log,
                      Ckpt(save_counter', step, lr, opt_iter,
                           IF domainadapt_flag THEN opt_d_iter ELSE 0, FALSE))
    /\ UNCHANGED <<jobVars, model_npz, dis_npz, wk, restarts, start_step, restored, ran,
                   killed_at, applied_lr>>
    /\ events' = Append(events, "ckpt")

\* Variant: the discriminator save follows whatever domainadapt_flag says.
SaveModel_AlwaysDis ==
    /\ mode = "single" /\ pc = "save_model"
    /\ model_npz' = Npz(step, weights)
    /\ pc' = "save_dis"
    /\ UNCHANGED <<epoch_idx, epoch_step>>
    /\ UNCHANGED <<step, lr, save_step, save_lr, save_counter, opt_iter, opt_d_iter,
                   weights, dis_weights, cursor, batch>>
    /\ events' = Append(events, "model")
    /\ UNCHANGED <<jobVars, ckpts, dis_npz, wk, histVars>>

\* Lines 283-284: train_model.save_weights(newest_model.npz)
SaveModel ==
    /\ mode = "single" /\ pc = "save_model"
    /\ model_npz' = Npz(step, weights)
    /\ IF domainadapt_flag
       THEN /\ pc' = "save_dis"
            /\ UNCHANGED <<epoch_idx, epoch_step>>
       ELSE EndIteration
    /\ UNCHANGED <<step, lr, save_step, save_lr, save_counter, opt_iter, opt_d_iter,
                   weights, dis_weights, cursor, batch>>
    /\ events' = Append(events, "model")
    /\ UNCHANGED <<jobVars, ckpts, dis_npz, wk, histVars>>

\* Lines 287-289: adapt_dis.save_weights(newest_discriminator.npz)
SaveDis ==
    /\ mode = "single" /\ pc = "save_dis"
    /\ dis_npz' = Npz(step, dis_weights)
    /\ EndIteration
    /\ UNCHANGED <<step, lr, save_step, save_lr, save_counter, opt_iter, opt_d_iter,
                   weights, dis_weights, cursor, batch>>
    /\ events' = Append(events, "dis")
    /\ UNCHANGED <<jobVars, ckpts, model_npz, wk, histVars>>

\* Lines 283-289: the weight files of the save block, one file per step.
SaveWeights ==
    /\ mode = "single"
    /\ IF pc = "save_model" THEN SaveModel ELSE SaveDis

\* The process is killed at any point after construction, or has ended, and
\* the job is launched again on the same directory: everything held in
\* memory is lost, the directory stays as it is.
Restart ==
    /\ mode = "single"
    /\ pc \in {"restore", "loop", "save_ckpt", "save_model", "save_dis", "done"}
    /\ restarts < MaxRestarts
    /\ restarts' = restarts + 1
    /\ pc' = "init"
    /\ step' = 0 /\ lr' = 0 /\ save_step' = 0 /\ save_lr' = 0 /\ save_counter' = 0
    /\ opt_iter' = 0 /\ opt_d_iter' = 0 /\ weights' = 0 /\ dis_weights' = 0
    /\ epoch_idx' = 0 /\ epoch_step' = 0
    /\ cursor' = 0 /\ batch' = <<>>
    /\ start_step' = 0
    /\ restored' = NothingRestored
    /\ saves' = <<>>
    /\ killed_at' = IF pc = "restore" THEN killed_at ELSE <<step, last_saved>>
    /\ events' = <<>>
    /\ UNCHANGED <<jobVars, dirVars, wk, ran, last_saved, save_log, applied_lr>>

\* ------------------------------------------------------------ parallel_train
\* Outcomes of train_dataset.shuffle(buffer_size=4096) on a dataset that fits
\* the buffer: every order of the samples, drawn by each process on its own.
Orders(n) ==
    {o \in [1 .. n -> 1 .. n] : \A i, j \in 1 .. n : o[i] = o[j] => i = j}

\* train_dataset.shard(num_shards, index): of the stream it is applied to,
\* the elements at the 0-based positions p with p % num_shards = index.
Shard(order, num_shards, index) ==
    {order[i] : i \in {k \in DOMAIN order : (k - 1) % num_shards = index}}

\* step // current_cluster_size() + 1, for every entry of lr_decay_steps
Rescaled(steps, n) == [i \in DOMAIN steps |-> (steps[i] \div n) + 1]

\* Lines 316-376: the dataset pipeline (shuffle, shard, repeat, map, batch),
\* the tracked variables step and lr, the optimizer, the checkpoint manager.
PConstruct(r) ==
    /\ mode = "parallel" /\ wk[r].pc = "init"
    /\ \E o \in Orders(conf.datasize) :
          wk' = [wk EXCEPT ![r] = [@ EXCEPT !.pc = "restore",
                                            !.order = o,
                                            !.step_var = InitStep,
                                            !.step = InitStep,
                                            !.step_is_var = TRUE,
                                            !.total_step = conf.total_step,
                                            !.decay_steps = lr_decay_steps]]
    /\ UNCHANGED <<jobVars, dirVars, pc, memVars, histVars, events>>

\* Lines 378-394: restore of the checkpoint inside try/except.
PRestore(r) ==
    /\ mode = "parallel" /\ wk[r].pc = "restore"
    /\ wk' = [wk EXCEPT ![r] = [@ EXCEPT
                  !.pc = "rescale",
                  !.step_var = IF Restorable THEN Latest.save_step ELSE @,
                  !.step = IF Restorable THEN Latest.save_step ELSE @,
                  !.lr_var = IF Restorable THEN Latest.save_lr ELSE @,
                  !.save_counter = IF Restorable THEN Latest.count ELSE @,
                  !.lr = IF Restorable THEN Latest.save_lr ELSE @]]
    /\ UNCHANGED <<jobVars, dirVars, pc, memVars, histVars, events>>

\* Lines 408-410: the budget and the thresholds are rescaled by the cluster
\* size.  The loop "for step_idx, step in enumerate(lr_decay_steps)" binds
\* the name step to each threshold in turn, as read before the entry is
\* overwritten, and leaves it bound to the last one: from here on the name
\* step is an int, no longer the tracked tf.Variable.
PRescale(r) ==
    /\ mode = "parallel" /\ wk[r].pc = "rescale"
    /\ wk' = [wk EXCEPT ![r] = [@ EXCEPT
                  !.pc = "loop",
                  !.total_step = (@ \div nworkers) + 1,
                  !.decay_steps = Rescaled(@, nworkers),
                  !.step = IF wk[r].decay_steps = <<>> THEN @
                           ELSE wk[r].decay_steps[Len(wk[r].decay_steps)],
                  !.step_is_var = (wk[r].decay_steps = <<>>)]]
    /\ UNCHANGED <<jobVars, dirVars, pc, memVars, histVars, events>>

\* Position of threshold s in a worker's rescaled list, counted from 1.
PDecayIndex(steps, s) ==
    CHOOSE i \in DOMAIN steps :
        steps[i] = s /\ \A j \in DOMAIN steps : steps[j] = s => i <= j

\* The batch the dataset iterator of worker r yields next, drawn from the
\* repetition of its shard.
PBatch(r) ==
    Batch(wk[r].cursor, conf.batch_size, Cardinality(Shard(wk[r].order, nworkers, r)))

\* Lines 439-467: one iteration.  The dataset yields the MapArity fields of
\* _map_fn and the loop header unpacks UnpackArity names: ValueError.  After
\* the header the name lr is rebound to a float at a threshold (the optimizer
\* keeps reading the tracked variable), and one_step calls step.assign_add(1)
\* on whatever the name step is bound to: AttributeError on an int.  Otherwise
\* the tracked step advances, the weights and optimizer variables are
\* broadcast after apply_gradients when is_first_batch (step == 0 at the
\* call) holds, rank 0 saves when due, and the loop ends when step equals
\* the rescaled budget.
PIterate(r) ==
    /\ mode = "parallel" /\ wk[r].pc = "loop"
    /\ IF MapArity # UnpackArity \/ ~wk[r].step_is_var
       THEN /\ wk' = [wk EXCEPT ![r] = [@ EXCEPT !.pc = "aborted",
                                                 !.batch = PBatch(r),
                                                 !.cursor = @ + Len(PBatch(r))]]
            /\ UNCHANGED dirVars
       ELSE /\ wk' = [wk EXCEPT ![r] = [@ EXCEPT
                         !.lr = IF \E i \in DOMAIN wk[r].decay_steps :
                                       wk[r].decay_steps[i] = wk[r].step
                                THEN PDecayIndex(wk[r].decay_steps, wk[r].step)
                                ELSE @,
                         !.step_var = @ + 1,
                         !.step = @ + 1,
                         !.save_counter = IF SaveDue(wk[r].step + 1) /\ r = 0
                                          THEN @ + 1 ELSE @,
                         !.broadcasts = IF wk[r].step = 0 THEN @ + 1 ELSE @,
                         !.batch = PBatch(r),
                         !.cursor = @ + Len(PBatch(r)),
                         !.pc = IF wk[r].step + 1 = wk[r].total_step
                                THEN "done" ELSE "loop"]]
            /\ IF SaveDue(wk[r].step + 1) /\ r = 0
               THEN /\ ckpts' = WriteCkpt(ckpts,
                                   Ckpt(wk[r].save_counter + 1, wk[r].step + 1,
                                        wk[r].lr_var, wk[r].step + 1 - InitStep,
                                        0, FALSE))
                    /\ model_npz' = Npz(wk[r].step + 1, wk[r].step + 1 - InitStep)
                    /\ UNCHANGED dis_npz
               ELSE UNCHANGED dirVars
    /\ UNCHANGED <<jobVars, pc, memVars, histVars, events>>

\* ------------------------------------------------------------ specification
Next ==
    \/ Construct
    \/ Restore
    \/ TrainStep
    \/ SaveCkpt
    \/ SaveWeights
    \/ Restart
    \/ \E r \in Ranks : PConstruct(r)
    \/ \E r \in Ranks : PRestore(r)
    \/ \E r \in Ranks : PRescale(r)
    \/ \E r \in Ranks : PIterate(r)

Spec == Init /\ [][Next]_vars

\* ------------------------------------------------------------ claims
\* Positions of the single_train process from the entry of the loop on.
Running == {"loop", "save_ckpt", "save_model", "save_dis", "done"}

\* The schedule of the specification: the power carried by the rate at step
\* s is the number of thresholds that are <= s.
Scheduled(s) == Cardinality({i \in DOMAIN lr_decay_steps : lr_decay_steps[i] <= s})

\* The job was launched on an empty directory and has not been relaunched.
FreshRun == mode = "single" /\ restarts = 0 /\ ~restored.ckpt /\ ~restored.model

\* The multiples of save_interval in a+1 .. b, in increasing order.
RECURSIVE SavesIn(_, _)
SavesIn(a, b) ==
    IF b <= a THEN <<>>
    ELSE IF b % conf.save_interval = 0 THEN Append(SavesIn(a, b - 1), b)
    ELSE SavesIn(a, b - 1)

\* The step at which the run launched on an empty directory ends.
UninterruptedFinal ==
    IF cur_epoch(InitStep) < total_epoch
    THEN InitStep + (total_epoch - cur_epoch(InitStep)) * epoch_size
    ELSE InitStep

\* C1: in single_train the learning rate held by the loop at every step
\* reached, in a fresh run or in a run resumed from a checkpoint, is
\* lr_init * lr_decay_factor^k with k the number of thresholds <= the step.
C1_LrIsFunctionOfStep ==
    (mode = "single" /\ pc \in Running) => lr = Scheduled(step)

\* C2: a fresh single_train run saves checkpoints at exactly the steps
\* I, 2I, ..., floor(T/I)*I (with T = 100, I = 50: at 50 and at 100).
C2_SavesAtMultiples ==
    (FreshRun /\ pc = "done") =>
        saves = SavesIn(0, (conf.total_step \div conf.save_interval) * conf.save_interval)

\* C3: a fresh single_train run on a dataset of at least one batch ends with
\* the global step equal to the total step budget.
C3_EndsAtTotalStep ==
    (FreshRun /\ conf.datasize >= conf.batch_size /\ pc = "done") =>
        step = conf.total_step

\* C4: a run resumed from the checkpoint saved at step N ends at the step
\* the uninterrupted run ends at, and saves at the steps the uninterrupted
\* run saves at after N.
C4_ResumeIdempotent ==
    (mode = "single" /\ pc = "done" /\ restored.ckpt
        /\ restored.ckpt_step <= UninterruptedFinal) =>
        /\ step = UninterruptedFinal
        /\ saves = SavesIn(restored.ckpt_step, UninterruptedFinal)

\* C5: with the checkpoint missing or corrupt at startup training does not
\* abort and counts its steps from 0: after k completed steps the global
\* step is k.
C5_StartsFromZero ==
    (mode = "single" /\ pc \in Running /\ ~restored.ckpt /\ ~restored.model) =>
        /\ start_step = 0
        /\ step = weights

\* C6: after a restart the restored step counter and the restored model
\* weights (and discriminator weights, when enabled) come from the same save.
C6_RestoredFromOneSave ==
    (mode = "single" /\ pc \in Running /\ restored.ckpt) =>
        /\ restored.model
        /\ restored.model_at = restored.ckpt_step
        /\ domainadapt_flag => (restored.dis /\ restored.dis_at = restored.ckpt_step)

\* C7: a process restarted from a checkpoint saved with step N and learning
\* rate L holds step N and learning rate L before its first training step.
C7_RoundTrip ==
    (mode = "single" /\ pc \in Running /\ restored.ckpt /\ step = start_step) =>
        /\ step = restored.ckpt_step
        /\ lr = restored.ckpt_lr

\* C8: within one process lifetime, in single_train and in parallel_train,
\* the global step changes only by a loop iteration, and every loop
\* iteration raises it by exactly 1.
C8_StepByOne ==
    [][ /\ (mode = "single" /\ pc \in Running /\ pc' \in Running) =>
              IF pc = "loop" THEN step' = step + 1 ELSE step' = step
        /\ \A r \in DOMAIN wk :
              (wk[r].pc \in {"rescale", "loop"}) =>
                  IF wk[r].pc = "loop" /\ wk'[r] # wk[r]
                  THEN wk'[r].step = wk[r].step + 1
                  ELSE wk'[r].step = wk[r].step
      ]_vars

\* C9: over the whole history of a single_train job, kills and relaunches
\* included, the learning rate of an executed step is never larger than
\* that of the executed step before it (a larger power is a smaller rate).
C9_LrNeverIncreases ==
    [][ (ran # NoRun /\ ran' # ran) => ran'[2] >= ran[2] ]_vars

\* The workers of parallel_train have all built their dataset pipeline.
AllBuilt == mode = "parallel" /\ \A r \in DOMAIN wk : wk[r].order # <<>>
WorkerShard(r) == Shard(wk[r].order, nworkers, r)

\* C10: over one pass of the dataset the W shards are pairwise disjoint and
\* their union is the full dataset, whatever each worker's shuffle drew.
C10_ShardsPartition ==
    AllBuilt =>
        /\ \A r1, r2 \in DOMAIN wk : r1 # r2 => WorkerShard(r1) \cap WorkerShard(r2) = {}
        /\ UNION {WorkerShard(r) : r \in DOMAIN wk} = 1 .. conf.datasize

\* A worker of parallel_train has left its training loop.
LeftLoop(r) == wk[r].pc \in {"done", "aborted"}

\* C11: every parallel_train worker performs the broadcast of weights and
\* optimizer variables in its first training step, exactly once per process.
C11_BroadcastOnce ==
    \A r \in DOMAIN wk : LeftLoop(r) => wk[r].broadcasts = 1

\* A relaunched single_train process that has entered its loop, the process
\* before it having been killed after completing step killed_at[1].
Resumed == mode = "single" /\ pc \in Running /\ restarts > 0 /\ killed_at # NoRun

\* The step the relaunch has to resume from: that of the most recent
\* readable checkpoint at the kill, or the initial step.
ResumePoint == IF killed_at[2] > 0 THEN killed_at[2] ELSE InitStep

C14_NoDiscriminatorArtifact ==
    (mode = "single" /\ ~domainadapt_flag) =>
        /\ dis_npz.absent
        /\ ~restored.dis
        /\ pc # "save_dis"

\* A relaunched process without domain adaptation has restored and has gone
\* through two save blocks.
C14_Witness ==
    /\ mode = "single" /\ ~domainadapt_flag
    /\ restarts > 0 /\ restored.ckpt /\ Len(saves) >= 2 /\ pc = "loop"

\* The n most recent entries of a log.
Newest(log, n) ==
    IF Len(log) <= n THEN log ELSE SubSeq(log, Len(log) - n + 1, Len(log))

\* C15: after any sequence of saves the directory holds at most 3
\* checkpoints, and they are the 3 most recently saved ones.
C15_KeepsThreeNewest ==
    /\ Len(ckpts) <= MaxToKeep
    /\ ckpts = Newest(save_log, MaxToKeep)

\* The loop of the process has been handed a batch.
GotBatch == mode = "single" /\ pc \in Running /\ step > start_step
PGotBatch(r) == wk[r].pc \in {"done", "aborted"} \/ wk[r].cursor > 0

\* C16: every batch delivered to the training loop, in single_train and in
\* parallel_train, holds exactly batch_size samples, also when it spans the
\* boundary between two passes over the dataset.
C16_FullBatches ==
    /\ GotBatch => Len(batch) = conf.batch_size
    /\ \A r \in DOMAIN wk : PGotBatch(r) => Len(wk[r].batch) = conf.batch_size

\* The dataset size is not a multiple of batch_size and the batch in hand
\* holds samples of two passes.
C16_Witness ==
    /\ GotBatch
    /\ conf.datasize % conf.batch_size # 0
    /\ \E i, j \in DOMAIN batch : batch[i].pass # batch[j].pass

\* C17: the rate the optimizer applies in the update of step s is the
\* scheduled rate of step s.
C17_AppliedIsScheduled ==
    (mode = "single" /\ ran # NoRun) => applied_lr = Scheduled(ran[1])

\* C18: a process whose checkpoint restore failed enters its loop with the
\* step counter, the rate, the optimizer state and the weights all as
\* constructed.
C18_FreshAsAWhole ==
    (mode = "single" /\ pc \in Running /\ step = start_step /\ ~restored.ckpt) =>
        /\ step = InitStep /\ lr = 0
        /\ opt_iter = 0 /\ opt_d_iter = 0
        /\ weights = 0 /\ dis_weights = 0

\* C19: a parallel_train worker leaves its loop only through the break, its
\* step being the rescaled budget total_step // W + 1.
C19_EndsAtRescaledBudget ==
    \A r \in DOMAIN wk :
        LeftLoop(r) => /\ wk[r].pc = "done"
                       /\ wk[r].step = (conf.total_step \div nworkers) + 1

\* The order of the statements of one iteration of the single_train loop.
IterationOrder ==
    <<"step", "batch", "lr", "update", "log", "vis", "ckpt", "model", "dis">>
Rank(e) == CHOOSE i \in DOMAIN IterationOrder : IterationOrder[i] = e
Did(e) == \E i \in DOMAIN events : events[i] = e

\* The save block of the iteration in hand, if one was due, has finished.
SaveBlockOver ==
    (step > start_step /\ SaveDue(step)) =>
        /\ Did("ckpt") /\ Did("model")
        /\ domainadapt_flag => Did("dis")

\* C20: in every iteration of single_train the order is advance step, pull
\* batch, compute learning rate, update, then log, then visualize, then
\* save; every checkpoint written records the step of the update completed
\* immediately before it; the next update starts only after the save block
\* has finished.
C20_SaveAfterUpdate ==
    [][ /\ \A i, j \in DOMAIN events' : i < j => Rank(events'[i]) < Rank(events'[j])
        /\ (\E i \in DOMAIN events' : Rank(events'[i]) > Rank("update")) => Did("update")'
        /\ (mode = "single" /\ ckpts' # ckpts) =>
              /\ Did("update") /\ ~Did("ckpt")
              /\ Latest'.save_step = ran[1]
              /\ Latest'.save_step = step
              /\ UNCHANGED <<weights, dis_weights, opt_iter, opt_d_iter, ran>>
        /\ (mode = "single" /\ cursor' > cursor) =>
              /\ pc = "loop"
              /\ SaveBlockOver
              /\ UNCHANGED dirVars
      ]_vars

\* An iteration has logged, visualized and gone through its whole save
\* block, the checkpoint carrying its step.
C20_Witness ==
    /\ mode = "single" /\ ~domainadapt_flag
    /\ events = SubSeq(IterationOrder, 1, Len(IterationOrder) - 1)
    /\ Latest.save_step = ran[1]

\* C21: with domain adaptation enabled, a training step of single_train
\* updates the discriminator through opt_d: the discriminator weights
\* receive one update, the state of opt_d advances by one update, and the
\* state of opt advances by the model update only.
C21_DiscriminatorOwnOptimizer ==
    [][ (mode = "single" /\ domainadapt_flag /\ cursor' > cursor) =>
            /\ dis_weights' = dis_weights + 1
            /\ opt_d_iter' = opt_d_iter + 1
            /\ opt_iter' = opt_iter + 1
      ]_vars

====
